---- MODULE Spec2Model ----
(***************************************************************************)
(* State-machine model of the research orchestration pipeline:             *)
(*   - ErrorTracker (src/error_handler.py): the bounded error ledger and    *)
(*     its statistics file;                                                 *)
(*   - ResearchAgent.search_and_analyze (src/research_agent.py) behind the  *)
(*     error_handler wrapper: validation, cache, rate limiter, provider     *)
(*     call, error tracking;                                                *)
(*   - research (src/app.py): one ResearchAgent per POST /api/research.     *)
(***************************************************************************)
EXTENDS Integers, Sequences, FiniteSets, TLC

VARIABLES
    error_stats,   \* ErrorTracker.error_stats of the process's error_tracker
    stats_file,    \* content of error_statistics.json
    now,           \* the wall clock, as read by datetime.now()
    script,        \* LedgerSpec: the kinds of the errors handed to track_error, repeated
    tracked,       \* ghost: the records of the track_error calls on this ledger object, in order
    loaded,        \* ghost: the statistics this ledger object started from
    writeFailures, \* ghost: number of failed saves of the statistics file
    createdEmpty,  \* ghost: the current ledger object was created by _initialize_error_stats
    restarted,     \* ghost: the process has been restarted (the ledger re-created from the file)
    track_result,  \* ghost: how the last track_error call ended: none, returned, or the exception raised
    tracking,      \* RaceSpec, per thread: where its track_error call stands and what it has read
    hash_seed,     \* the process's hash seed for str (PYTHONHASHSEED, random unless set)
    probe,         \* GraphSpec: the graph helper under study, its input and the results of its runs
    pc,            \* per search_and_analyze call: idle, waiting, inflight, done, abandoned
    args,          \* per call: its query and search_depth
    worker,        \* per call: its asyncio.to_thread provider call: none, running
    rate_limit,    \* per ResearchAgent: free slots of self.rate_limit
    waiters,       \* per ResearchAgent: calls suspended in "async with self.rate_limit", in order
    cache,         \* per ResearchAgent: self.cache, cache_key -> response
    ret,           \* the last completed call: what the error_handler wrapper handed to its caller
    http,          \* the last HTTP response of research()
    prior,         \* ghost, per call in progress: where (q, d) had been answered with success when it started
    produced,      \* ghost, per (agent, query, depth): first and latest success response built
    faults,        \* ghost: provider calls that did not end in a success response
    abandons       \* ghost: calls abandoned by their caller

ledgerVars == <<error_stats, stats_file, now, script, tracked, loaded, writeFailures,
                createdEmpty, restarted, track_result, tracking, hash_seed, probe>>

agentVars == <<pc, args, worker, rate_limit, waiters, cache, ret, http, prior,
               produced, faults, abandons>>

vars == <<ledgerVars, agentVars>>

----------------------------------------------------------------------------
(* Bounds of the model *)

\* LedgerSpec: number of track_error calls over the life of the statistics file
MaxTracks == 103

\* LedgerSpec: number of saves of the statistics file that fail
MaxWriteFailures == 1

\* Spec: number of search_and_analyze calls issued on the shared agent
NumCalls == 6

\* disruptions: calls that end in an error (of validation or of the provider), and
\* calls abandoned by their caller
MaxDisruptions == 1

\* readings of the clock
MaxClock == 2

----------------------------------------------------------------------------
(* ErrorTracker *)

\* "Keep only last 100 errors in timeline"
TimelineCap == 100

\* track_error(error) without context: context or {}
NoContext == [empty |-> TRUE]

\* _initialize_error_stats at clock reading t
InitializeErrorStats(t) ==
    [total_errors |-> 0, error_types |-> <<>>, error_timeline |-> <<>>, last_updated |-> t]

\* the last n entries of s: s[-n:]
LastN(s, n) == IF Len(s) <= n THEN s ELSE SubSeq(s, Len(s) - n + 1, Len(s))

\* faulty variant: the count of a kind is not read back
GetCountForgets(types, k) == 0

\* error_types.get(k, 0)
GetCount(types, k) == IF k \in DOMAIN types THEN types[k] ELSE 0

\* error_types[k] = v
SetCount(types, k, v) == [x \in (DOMAIN types) \cup {k} |-> IF x = k THEN v ELSE types[x]]

\* faulty variant: the trim keeps the oldest entries, tl[:100]
TrimTimelineKeepsOldest(tl) == IF Len(tl) > TimelineCap THEN SubSeq(tl, 1, TimelineCap) ELSE tl

\* "if len(timeline) > 100: timeline = timeline[-100:]"
TrimTimeline(tl) == IF Len(tl) > TimelineCap THEN LastN(tl, TimelineCap) ELSE tl

\* faulty variant: the lifetime counter is taken from the capped timeline
TrackedStatsCapsTotal(stats, etype, msg, ctx, t) ==
    LET tl == TrimTimeline(Append(stats.error_timeline,
                  [timestamp |-> t, error_type |-> etype, message |-> msg, context |-> ctx]))
    IN [total_errors   |-> Len(tl),
        error_types    |-> SetCount(stats.error_types, etype, GetCount(stats.error_types, etype) + 1),
        error_timeline |-> tl,
        last_updated   |-> t]

\* the in-memory part of track_error: statistics after tracking an error of
\* class etype with message msg and context ctx at clock reading t
TrackedStats(stats, etype, msg, ctx, t) ==
    [total_errors   |-> stats.total_errors + 1,
     error_types    |-> SetCount(stats.error_types, etype, GetCount(stats.error_types, etype) + 1),
     error_timeline |-> TrimTimeline(Append(stats.error_timeline,
                            [timestamp |-> t, error_type |-> etype,
                             message |-> msg, context |-> ctx])),
     last_updated   |-> t]

\* the statistics file: absent, unparsable, or the JSON of some statistics
FileAbsent == [state |-> "absent", data |-> InitializeErrorStats(0)]
FileCorrupt == [state |-> "corrupt", data |-> InitializeErrorStats(0)]
FileOf(stats) == [state |-> "json", data |-> stats]

\* outcomes of "with open(file, 'w') as f: json.dump(stats, f)":
\* written; open() fails (file untouched); dump fails after the truncating open
WriteOutcomes == {"ok", "open_fails", "dump_fails"}

\* faulty variant: the save leaves the file as it was
SavedFileNever(file, stats, outcome) == file

\* the file after the save attempt of track_error
SavedFile(file, stats, outcome) ==
    CASE outcome = "ok" -> FileOf(stats)
      [] outcome = "open_fails" -> file
      [] OTHER -> FileCorrupt

\* _load_error_stats at clock reading t
LoadErrorStats(file, t) ==
    IF file.state = "json" THEN file.data ELSE InitializeErrorStats(t)

\* track_error up to the save, on statistics of any shape json.load can
\* give (an object with some of the keys, or a list, which has the one field
\* json_list here): the statistics it leaves and the exception it raises
\* ("": none).  A key that is missing raises KeyError where it is first read.
TrackErrorOn(stats, etype, msg, ctx, t) ==
    IF "json_list" \in DOMAIN stats THEN [stats |-> stats, raised |-> "TypeError"]
    ELSE IF "total_errors" \notin DOMAIN stats THEN [stats |-> stats, raised |-> "KeyError"]
    ELSE IF "error_types" \notin DOMAIN stats
         THEN [stats |-> [stats EXCEPT !.total_errors = @ + 1], raised |-> "KeyError"]
    ELSE IF "error_timeline" \notin DOMAIN stats
         THEN [stats |-> [stats EXCEPT !.total_errors = @ + 1,
                                       !.error_types = SetCount(@, etype, GetCount(@, etype) + 1)],
               raised |-> "KeyError"]
    ELSE [stats |-> TrackedStats(stats, etype, msg, ctx, t), raised |-> ""]

----------------------------------------------------------------------------
(* Request values.  A string is a sequence of one-character strings; a query
   is a string or a value of another type; a depth is an int or a value of
   another type (a bool, which isinstance(depth, int) accepts, carries its
   integer value: True is 1, False is 0). *)

Str(s) == [t |-> "str", s |-> s]
NonStr(t) == [t |-> t, s |-> <<>>]
IntVal(v) == [t |-> "int", v |-> v]
NonInt(t, v) == [t |-> t, v |-> v]

IsSpace(ch) == ch = " "

\* s.lstrip()
RECURSIVE LStrip(_)
LStrip(s) == IF s # <<>> /\ IsSpace(Head(s)) THEN LStrip(Tail(s)) ELSE s

\* s.rstrip()
RECURSIVE RStrip(_)
RStrip(s) == IF s # <<>> /\ IsSpace(s[Len(s)]) THEN RStrip(SubSeq(s, 1, Len(s) - 1)) ELSE s

\* s.strip()
Strip(s) == RStrip(LStrip(s))

\* the reason validate_tavily_request gives for the query ("" when it accepts it)
QueryReason(q) ==
    IF q.t # "str" \/ q.s = <<>> THEN "Query must be a non-empty string"
    ELSE IF Len(Strip(q.s)) < 3 THEN "Query must be at least 3 characters long"
    ELSE ""

\* the reason validate_tavily_request gives for the depth ("" when it accepts it)
DepthReason(d) ==
    IF d.t \notin {"int", "bool"} THEN "Depth must be an integer"
    ELSE IF d.v < 1 \/ d.v > 5 THEN "Depth must be between 1 and 5"
    ELSE ""

\* faulty variant: the depth is not validated
InvalidFieldsQueryOnly(q, d) ==
    IF QueryReason(q) # "" THEN [k \in {"query"} |-> QueryReason(q)] ELSE <<>>

\* faulty variant: validation stops at the first bad field
InvalidFieldsFirstOnly(q, d) ==
    IF QueryReason(q) # "" THEN [k \in {"query"} |-> QueryReason(q)]
    ELSE IF DepthReason(d) # "" THEN [k \in {"depth"} |-> DepthReason(d)]
    ELSE <<>>

\* validate_tavily_request: the errors dict (empty: the request is valid)
InvalidFields(q, d) ==
    LET ks == (IF QueryReason(q) # "" THEN {"query"} ELSE {})
              \cup (IF DepthReason(d) # "" THEN {"depth"} ELSE {})
    IN [k \in ks |-> IF k = "query" THEN QueryReason(q) ELSE DepthReason(d)]

----------------------------------------------------------------------------
(* Exceptions: class name, whether a ResearchError, error_code, message,
   details, creation timestamp, and whether the details are JSON-serializable *)

ValidationError(fields, t) ==
    [class |-> "ValidationError", research |-> TRUE, error_code |-> "VALIDATION_ERROR",
     message |-> "Invalid request parameters",
     details |-> [invalid_fields |-> fields], timestamp |-> t, jsonable |-> TRUE]

TavilyAPIError(msg, status, body, jsonable, t) ==
    [class |-> "TavilyAPIError", research |-> TRUE, error_code |-> "API_" \o ToString(status),
     message |-> "Tavily API Error: " \o msg,
     details |-> [status_code |-> status, response_body |-> body, api_name |-> "Tavily"],
     timestamp |-> t, jsonable |-> jsonable]

\* an exception that is no ResearchError
OtherError(class, msg, t) ==
    [class |-> class, research |-> FALSE, error_code |-> "", message |-> msg,
     details |-> [type |-> class], timestamp |-> t, jsonable |-> TRUE]

\* handle_tavily_error(422, response_body)
HandleTavilyError422(body, jsonable, t) ==
    TavilyAPIError("Unprocessable Entity - Invalid request format", 422, body, jsonable, t)

\* the same exception, with the step of format_error_response at which it
\* makes a call raise: "str" (its __str__ raises), "dumps" (json.dumps of its
\* details raises an exception that is neither TypeError nor ValueError, as
\* RecursionError on details nested too deep)
WithRaises(e, step) ==
    [k \in DOMAIN e \cup {"raises"} |-> IF k = "raises" THEN step ELSE e[k]]

RaisesAt(e) == IF "raises" \in DOMAIN e THEN e.raises ELSE "none"

\* the outcome of a call: the exception raised ("" when it returns) and the
\* response returned
Returned(response) == [raised |-> "", response |-> response]
Raised(class) == [raised |-> class, response |-> [status |-> "none"]]

\* format_error_response, the body of its outer try, at clock reading t
BuiltResponse(e, t) ==
    LET response ==
            IF e.research
            THEN [status |-> "error", message |-> e.message, error_code |-> e.error_code,
                  details |-> e.details, timestamp |-> e.timestamp]
            ELSE [status |-> "error", message |-> e.message, error_code |-> "UNKNOWN_ERROR",
                  details |-> [type |-> e.class], timestamp |-> t]
    IN IF RaisesAt(e) = "str" THEN Raised("TypeError")
       ELSE IF e.jsonable THEN Returned(response)
       ELSE IF RaisesAt(e) = "dumps" THEN Raised("RecursionError")
       ELSE Returned([status |-> "error",
                      message |-> "Internal server error - Response not serializable",
                      error_code |-> "SERIALIZATION_ERROR",
                      details |-> [original_error |-> e.message], timestamp |-> t])

\* faulty variant: the exception raised while building leaves the function
OnExceptionReraise(built, t) == built

\* format_error_response, its outer except Exception
OnException(built, t) ==
    IF built.raised = "" THEN built
    ELSE Returned([status |-> "error", message |-> "Critical error in error handling",
                   error_code |-> "CRITICAL_ERROR", timestamp |-> t])

\* format_error_response(error) at clock reading t: how the call ends
FormatErrorResponseCall(e, t) == OnException(BuiltResponse(e, t), t)

\* format_error_response(error) at clock reading t: the response
FormatErrorResponse(e, t) == FormatErrorResponseCall(e, t).response

----------------------------------------------------------------------------
(* Text.  Urls, titles, contents and keywords are strings; str.lower is
   modelled on ASCII text. *)

\* Op applied to the value of v: v is evaluated once, whatever the number of
\* times Op uses its argument
WithValue(v, Op(_)) == CHOOSE r \in {Op(x) : x \in {v}} : TRUE

LowerOf ==
    [A |-> "a", B |-> "b", C |-> "c", D |-> "d", E |-> "e", F |-> "f", G |-> "g",
     H |-> "h", I |-> "i", J |-> "j", K |-> "k", L |-> "l", M |-> "m", N |-> "n",
     O |-> "o", P |-> "p", Q |-> "q", R |-> "r", S |-> "s", T |-> "t", U |-> "u",
     V |-> "v", W |-> "w", X |-> "x", Y |-> "y", Z |-> "z"]

\* ch.lower() for one character
LowerChar(ch) == IF ch \in DOMAIN LowerOf THEN LowerOf[ch] ELSE ch

RECURSIVE LowerFrom(_)
LowerFrom(s) == IF s = "" THEN "" ELSE WithValue(Head(s), LowerChar) \o LowerFrom(Tail(s))

\* content.lower()
Lower(s) == WithValue(s, LowerFrom)

\* sub in s
Contains(s, sub) ==
    WithValue(s, LAMBDA v :
        \E i \in 1..(Len(v) - Len(sub) + 1) : SubSeq(v, i, i + Len(sub) - 1) = sub)

----------------------------------------------------------------------------
(* Provider payloads: what client.search gives back.
   kind: dict, text (a str), other (any other type), raise (the call raises);
   parsed: what json.loads makes of a text: dict, list, invalid;
   has_error: "error" in payload (a key of the dict, an element of the list);
   results: payload.get("results", []), empty also when the key is missing;
   jsonable: json.dumps accepts the payload *)

\* one element of the payload's results that is a mapping (result.get works)
Result(title, url, content) ==
    [mapping |-> TRUE, title |-> title, url |-> url, content |-> content]

Payload(kind, parsed, has_error, results, jsonable) ==
    [kind |-> kind, parsed |-> parsed, has_error |-> has_error, results |-> results,
     jsonable |-> jsonable]

\* a url: its text and the netloc urlparse finds in it
Url(text, netloc) == [text |-> text, netloc |-> netloc]

\* one element of the payload's results that is no mapping (result.get raises
\* AttributeError)
NoMappingResult == [mapping |-> FALSE]

OneResult == <<Result("t1", Url("http://h1/u1", "h1"), "c1")>>

\* seven results, the third of them no mapping
ManyResults ==
    <<Result("t1", Url("http://h1/u1", "h1"), "c1"),
      Result("t2", Url("http://h2/u2.pdf", "h2"), "Delta alpha delta"),
      NoMappingResult,
      Result("t3", Url("", ""), "c3"),
      Result("t4", Url("http://h1/u4", "h1"), "c4"),
      Result("t5", Url("http://h1/u5", "h1"), "c5"),
      Result("t6", Url("http://h1/u6", "h1"), "c6")>>

\* no provider call made
NoPayload == Payload("none", "invalid", FALSE, <<>>, TRUE)

PayloadOk == Payload("dict", "dict", FALSE, OneResult, TRUE)
PayloadMany == Payload("dict", "dict", FALSE, ManyResults, TRUE)
PayloadNoMappings == Payload("dict", "dict", FALSE, <<NoMappingResult>>, TRUE)
PayloadError == Payload("dict", "dict", TRUE, <<>>, TRUE)
PayloadErrorWithResults == Payload("dict", "dict", TRUE, OneResult, TRUE)
PayloadErrorUnserializable == Payload("dict", "dict", TRUE, <<>>, FALSE)
PayloadOkText == Payload("text", "dict", FALSE, OneResult, TRUE)
PayloadListText == Payload("text", "list", FALSE, <<>>, TRUE)
PayloadListTextWithError == Payload("text", "list", TRUE, <<>>, TRUE)
PayloadNone == Payload("other", "invalid", FALSE, <<>>, TRUE)
PayloadEmpty == Payload("dict", "dict", FALSE, <<>>, TRUE)
PayloadBadText == Payload("text", "invalid", FALSE, <<>>, TRUE)
PayloadRaises == Payload("raise", "invalid", FALSE, <<>>, TRUE)

\* settings.MAX_URLS_PER_SEARCH
MaxUrls == 5

\* _extract_domain(url)
ExtractDomain(url) == IF url.text = "" THEN "" ELSE url.netloc

\* the type _determine_content_type finds for the lower-cased url
TypeOfUrl(url) ==
    IF url = "" THEN "unknown"
    ELSE IF Contains(url, "pdf") THEN "pdf"
    ELSE IF \E ext \in {".doc", ".docx"} : Contains(url, ext) THEN "document"
    ELSE IF \E ext \in {".jpg", ".png", ".gif"} : Contains(url, ext) THEN "image"
    ELSE "webpage"

\* _determine_content_type(result)
DetermineContentType(r) == WithValue(Lower(r.url.text), TypeOfUrl)

\* the source built from one raw result
Source(r) ==
    [title |-> r.title, url |-> r.url.text, content |-> r.content,
     type |-> DetermineContentType(r), domain |-> ExtractDomain(r.url)]

\* faulty variant: the slice keeps every element
FirstNKeepsAll(s, n) == s

\* s[:n]
FirstN(s, n) == IF Len(s) <= n THEN s ELSE SubSeq(s, 1, n)

\* the sources built from the results, in their order: a result whose
\* processing raises is skipped
RECURSIVE SourcesOf(_)
SourcesOf(results) ==
    IF results = <<>> THEN <<>>
    ELSE IF Head(results).mapping
         THEN <<Source(Head(results))>> \o SourcesOf(Tail(results))
         ELSE SourcesOf(Tail(results))

NormalizedSources(results) == WithValue(results, SourcesOf)

----------------------------------------------------------------------------
(* Keywords and the knowledge graph. Titles, contents and keywords are
   strings; str.lower and str.split are modelled on ASCII text. *)

\* the characters str.split() separates at
Whitespace == {" ", "\t", "\n", "\r", "\f"}

\* the words of s after the word cur that is being read
RECURSIVE SplitFrom(_, _)
SplitFrom(s, cur) ==
    IF s = "" THEN (IF cur = "" THEN <<>> ELSE <<cur>>)
    ELSE IF Head(s) \in Whitespace
         THEN (IF cur = "" THEN <<>> ELSE <<cur>>) \o SplitFrom(Tail(s), "")
         ELSE SplitFrom(Tail(s), cur \o Head(s))

\* s.split()
Split(s) == WithValue(s, LAMBDA v : SplitFrom(v, ""))

\* settings.COMMON_WORDS
CommonWords ==
    {"about", "above", "after", "again", "against", "all", "and", "any",
     "are", "because", "been", "before", "being", "below", "between",
     "both", "but", "by", "could", "did", "does", "doing", "down",
     "during", "each", "few", "for", "from", "further", "had", "has",
     "have", "having", "her", "here", "hers", "herself", "him", "himself",
     "his", "how", "into", "its", "itself", "just", "more", "most",
     "myself", "nor", "not", "now", "off", "once", "only", "other",
     "ought", "our", "ours", "ourselves", "out", "over", "own", "same",
     "she", "should", "some", "such", "than", "that", "the", "their",
     "theirs", "them", "themselves", "then", "there", "these", "they",
     "this", "those", "through", "too", "under", "until", "very", "was",
     "way", "were", "what", "when", "where", "which", "while", "who",
     "whom", "why", "with", "would", "you", "your", "yours", "yourself",
     "yourselves"}

\* a keyword is longer than this
KeywordMinLen == 4

\* keywords kept per content
KeywordCap == 10

\* characters of a title kept in its node
TitleCap == 50

\* len(w) > 4 and w not in settings.COMMON_WORDS
IsKeyword(w) == Len(w) > KeywordMinLen /\ w \notin CommonWords

\* the elements of a sequence, each once, in the order of their first occurrence
RECURSIVE Distinct(_, _)
Distinct(s, seen) ==
    IF s = <<>> THEN <<>>
    ELSE IF Head(s) \in seen THEN Distinct(Tail(s), seen)
    ELSE <<Head(s)>> \o Distinct(Tail(s), seen \cup {Head(s)})

\* s with its first k elements moved to its end
Rotated(s, k) ==
    WithValue(s, LAMBDA v : IF v = <<>> THEN v
                            ELSE SubSeq(v, (k % Len(v)) + 1, Len(v))
                                 \o SubSeq(v, 1, k % Len(v)))

\* the largest hash seed of the model
MaxSeed == 2

\* the hash seeds a process can start with
HashSeeds == 0..MaxSeed

\* list(set(s)) for a list of str: the set iterates in the order of its
\* hash table, which the hashes of its elements determine and so the
\* process's hash seed; of the orders that can come out, the model has the
\* order of first occurrence rotated by the seed
SetOrder(s, seed) == WithValue(s, LAMBDA v : Rotated(Distinct(v, {}), seed))

\* _extract_keywords(content) in a process with this hash seed
ExtractKeywordsSeeded(content, seed) ==
    IF content = "" THEN <<>>
    ELSE FirstN(SetOrder(SelectSeq(Split(Lower(content)), IsKeyword), seed), KeywordCap)

\* _extract_keywords(content)
ExtractKeywords(content) == ExtractKeywordsSeeded(content, hash_seed)

\* nx.Graph(): the nodes in insertion order with their type attribute, and
\* per node its neighbours in insertion order
EmptyGraph == [nodes |-> <<>>, adj |-> <<>>]

\* position of the node in G, 0 when it is no node of G
NodeIndex(G, id) ==
    IF \E i \in 1..Len(G.nodes) : G.nodes[i].id = id
    THEN CHOOSE i \in 1..Len(G.nodes) : G.nodes[i].id = id
    ELSE 0

\* G.add_node(id, type=type): a new node goes last, a node that exists keeps
\* its place and takes the type
AddNode(G, id, type) ==
    WithValue(G, LAMBDA g :
        IF NodeIndex(g, id) = 0
        THEN [nodes |-> Append(g.nodes, [id |-> id, type |-> type]),
              adj |-> Append(g.adj, <<>>)]
        ELSE [g EXCEPT !.nodes[NodeIndex(g, id)].type = type])

\* the neighbours nbrs with v among them
WithNeighbour(nbrs, v) ==
    IF \E k \in 1..Len(nbrs) : nbrs[k] = v THEN nbrs ELSE Append(nbrs, v)

\* G.add_edge(u, v) between two nodes of G
AddEdge(G, u, v) ==
    WithValue(G, LAMBDA g :
        WithValue([g EXCEPT !.adj[NodeIndex(g, u)] = WithNeighbour(g.adj[NodeIndex(g, u)], v)],
                  LAMBDA g1 :
            [g1 EXCEPT !.adj[NodeIndex(g1, v)] = WithNeighbour(g1.adj[NodeIndex(g1, v)], u)]))

\* G.edges() from the i-th node on: per node in node order, its neighbours
\* that no earlier node reported
RECURSIVE EdgesFrom(_, _)
EdgesFrom(G, i) ==
    IF i > Len(G.nodes) THEN <<>>
    ELSE LET seen == {G.nodes[j].id : j \in 1..(i - 1)}
             NotSeen(v) == v \notin seen
             nbrs == SelectSeq(G.adj[i], NotSeen)
         IN [k \in 1..Len(nbrs) |-> [source |-> G.nodes[i].id, target |-> nbrs[k]]]
            \o EdgesFrom(G, i + 1)

\* the keyword nodes and edges of one source
RECURSIVE AddKeywords(_, _, _)
AddKeywords(G, title_node, keywords) ==
    IF keywords = <<>> THEN G
    ELSE AddKeywords(AddEdge(AddNode(G, Head(keywords), "keyword"),
                             title_node, Head(keywords)),
                     title_node, Tail(keywords))

\* the body of the loop of _create_knowledge_graph for one source
AddSource(G, source, seed) ==
    WithValue(FirstN(source.title, TitleCap), LAMBDA title_node :
        WithValue(ExtractKeywordsSeeded(source.content, seed), LAMBDA keywords :
            AddKeywords(AddNode(G, title_node, "source"), title_node, keywords)))

\* the loop of _create_knowledge_graph over the sources
RECURSIVE AddSources(_, _, _)
AddSources(G, sources, seed) ==
    IF sources = <<>> THEN G
    ELSE AddSources(WithValue(Head(sources), LAMBDA source : AddSource(G, source, seed)),
                    Tail(sources), seed)

\* the nodes and the links of G in the D3.js format
GraphData(G) ==
    [nodes |-> [i \in 1..Len(G.nodes) |->
                   [id |-> G.nodes[i].id, label |-> G.nodes[i].id,
                    type |-> G.nodes[i].type]],
     links |-> EdgesFrom(G, 1)]

\* _create_knowledge_graph(sources) in a process with this hash seed
CreateKnowledgeGraphSeeded(sources, seed) ==
    WithValue(sources, LAMBDA ss :
        WithValue(AddSources(EmptyGraph, ss, seed), GraphData))

\* _create_knowledge_graph(sources)
CreateKnowledgeGraph(sources) == CreateKnowledgeGraphSeeded(sources, hash_seed)

\* the success response built from the results at clock reading t
Response(q, d, results, t) ==
    WithValue(NormalizedSources(results), LAMBDA sources :
        WithValue(CreateKnowledgeGraph(sources), LAMBDA graph :
            [status |-> "success", query |-> q, depth |-> d, timestamp |-> t,
             sources |-> FirstN(sources, MaxUrls),
             knowledge_graph |-> graph,
             metadata |-> [total_sources |-> Len(sources),
                           processed_sources |-> Len(FirstN(sources, MaxUrls)),
                           graph_nodes |-> Len(graph.nodes),
                           graph_edges |-> Len(graph.links)]]))

\* faulty variant: the error field counts only when no results come with it
HasErrorFieldUnlessResults(p) == (p.kind = "other" \/ p.has_error) /\ p.results = <<>>

\* "error" in search_result, after a payload that is neither a dict nor a
\* str was replaced by a dict with the key "error"
HasErrorField(p) == p.kind = "other" \/ p.has_error

\* the dict a payload that is neither a dict nor a str is replaced by
ConvertedPayload(p) ==
    [status |-> "error", error |-> "Unexpected response type", raw_response |-> p]

\* The provider call's result handled by search_and_analyze:
\*   ok: a response is built; otherwise exc is raised, inside the inner
\*   try (inner: tracked by the inner handler, then by the outer one) or after it.
Handled(p, q, d, t) ==
    LET fail(e, inner) == [ok |-> FALSE, exc |-> e, inner |-> inner, results |-> <<>>]
        isDict == p.kind = "dict" \/ (p.kind = "text" /\ p.parsed = "dict") \/ p.kind = "other"
        hasError == HasErrorField(p)
        results == IF p.kind = "other" THEN <<>> ELSE p.results
    IN CASE p.kind = "raise" ->
              fail(OtherError("ConnectionError", "provider call failed", t), TRUE)
         [] p.kind = "text" /\ p.parsed = "invalid" ->
              fail(TavilyAPIError("Invalid response format from API", 500,
                                  [raw_response |-> p], TRUE, t), TRUE)
         [] hasError ->
              fail(IF p.kind = "other"
                   THEN HandleTavilyError422(ConvertedPayload(p), TRUE, t)
                   ELSE HandleTavilyError422(p, p.jsonable, t), TRUE)
         [] ~isDict ->
              fail(OtherError("AttributeError", "object has no attribute 'get'", t), FALSE)
         [] results = <<>> ->
              fail(TavilyAPIError("No results found", 404, p, p.jsonable, t), FALSE)
         [] OTHER -> [ok |-> TRUE, exc |-> OtherError("", "", t), inner |-> FALSE,
                      results |-> results]
----------------------------------------------------------------------------
(* ResearchAgent *)

\* asyncio.Semaphore(5)
RateLimitSlots == 5

Calls == DOMAIN pc

\* agent 0 is the ResearchAgent the direct callers share; agent c is the one
\* research() constructs for request c
SharedAgent == 0
AgentOf(c) == args[c].agent

\* the arguments of a call in progress, its agent, and (ghost) whether it had
\* to wait for a slot
NoArgs == [query |-> NonStr("none"), depth |-> NonInt("none", 0), agent |-> SharedAgent,
           waited |-> FALSE]

\* calls are numbered in the order they are issued
CanIssue(c) == pc[c] = "idle" /\ (IF c = 1 THEN TRUE ELSE pc[c - 1] # "idle")

\* provider calls started and not yet returned
InFlight == {c \in Calls : worker[c] = "running"}
InFlightOn(a) == {c \in InFlight : AgentOf(c) = a}

\* calls in progress on agent a
InProgressOn(a) == {c \in Calls : pc[c] \in {"waiting", "inflight"} /\ AgentOf(c) = a}

\* the context the inner handler hands to track_error
InnerContext(q, d, p) ==
    [query |-> q, depth |-> d,
     params |-> IF d.v > 1 THEN "advanced" ELSE "basic",
     raw_response |-> IF p.kind = "raise" THEN "None" ELSE p.kind]

\* the context the outer handler hands to track_error
OuterContext(q, d) == [query |-> q, depth |-> d, function |-> "search_and_analyze"]

ErrorRecord(e, ctx, t) ==
    [timestamp |-> t, error_type |-> e.class, message |-> e.message, context |-> ctx]

\* faulty variant: only the inner handler tracks
TrackAllInnerOnly(stats, e, ctxs, t) ==
    IF Len(ctxs) <= 1 THEN stats
    ELSE TrackedStats(stats, e.class, e.message, Head(ctxs), t)

\* error_tracker.track_error(e, ctx) for each ctx of ctxs in turn
RECURSIVE TrackAll(_, _, _, _)
TrackAll(stats, e, ctxs, t) ==
    IF ctxs = <<>> THEN stats
    ELSE TrackAll(TrackedStats(stats, e.class, e.message, Head(ctxs), t), e, Tail(ctxs), t)

\* the ledger's part of a step of a call that tracks e once per context of
\* ctxs (none: the step tracks nothing)
Tracks(e, ctxs) ==
    /\ error_stats' = TrackAll(error_stats, e, ctxs, now)
    /\ stats_file' = IF ctxs = <<>> THEN stats_file
                     ELSE SavedFile(stats_file, error_stats', "ok")
    /\ tracked' = tracked \o [i \in 1..Len(ctxs) |-> ErrorRecord(e, ctxs[i], now)]
    /\ track_result' = IF ctxs = <<>> THEN track_result ELSE "returned"
    /\ UNCHANGED <<now, script, loaded, writeFailures, createdEmpty, restarted,
                   tracking, hash_seed, probe>>

\* what a completed call handed to its caller, with the call it was:
\* its arguments and agent, where (q, d) had been answered with success when
\* it started, the number of provider calls it made and the payload it got
Outcome(c, how, value, calls) ==
    [how |-> how, value |-> value, query |-> args[c].query, depth |-> args[c].depth,
     agent |-> args[c].agent, waited |-> args[c].waited, prior |-> prior[c],
     provider_calls |-> calls, payload |-> NoPayload]

NoOutcome ==
    [how |-> "none", value |-> <<>>, query |-> NoArgs.query, depth |-> NoArgs.depth,
     agent |-> SharedAgent, waited |-> FALSE, prior |-> "none", provider_calls |-> 0,
     payload |-> NoPayload]

\* faulty variant: the wrapper formats a ResearchError and lets any other
\* exception through
ErrorHandlerOnlyResearchErrors(c, e, t, calls) ==
    IF e.research THEN Outcome(c, "returned", FormatErrorResponse(e, t), calls)
    ELSE Outcome(c, "raised", e, calls)

\* error_handler's wrapper around a call that raised e
ErrorHandlerOnError(c, e, t, calls) == Outcome(c, "returned", FormatErrorResponse(e, t), calls)

\* error_handler's wrapper around a call that returned a response
ErrorHandlerOnResult(c, response, calls) == Outcome(c, "returned", response, calls)

\* the response of research() to a completed search_and_analyze
HttpAnswer(r) ==
    IF r.how = "returned"
    THEN [code |-> 200, body |-> r.value]
    ELSE [code |-> 500,
          body |-> [status |-> "error", message |-> r.value.message, error_code |-> "SERVER_ERROR"]]

\* the caller's side of a call of agent a that completes with r, leaving the
\* agent's cache as newCache: research() answers and its agent goes out of scope
Completes(c, a, r, newCache) ==
    /\ ret' = r
    /\ pc' = [pc EXCEPT ![c] = "done"]
    /\ IF a # SharedAgent
       THEN /\ http' = HttpAnswer(r)
            /\ cache' = [cache EXCEPT ![a] = <<>>]
       ELSE /\ http' = http
            /\ cache' = [cache EXCEPT ![a] = newCache]

\* where (q, d) has been answered with success so far
PriorOf(a, q, d) ==
    IF <<a, q, d>> \in DOMAIN produced THEN "agent"
    ELSE IF \E k \in DOMAIN produced : k[2] = q /\ k[3] = d THEN "process"
    ELSE "none"

\* str(search_depth) of a validated depth
DepthText(d) ==
    IF d.t = "bool" THEN (IF d.v = 1 THEN "True" ELSE "False") ELSE ToString(d.v)

\* the characters of a text, one by one
RECURSIVE CharsFrom(_)
CharsFrom(s) == IF s = "" THEN <<>> ELSE <<Head(s)>> \o CharsFrom(Tail(s))

Chars(s) == WithValue(s, CharsFrom)

\* faulty variant: the key leaves the depth out
CacheKeyQueryOnly(q, d) == q.s

\* cache_key = f"{query}:{search_depth}" of a validated request
CacheKey(q, d) == q.s \o <<":">> \o Chars(DepthText(d))

\* faulty variant: a cache hit is stamped again
CacheHitRestamps(entry, t) == [entry EXCEPT !.timestamp = t + 1]

\* "return self.cache[cache_key]"
CacheHit(entry, t) == entry

\* faulty variant: the semaphore admits a call although no slot is free
MayEnterAlways(a) == waiters[a] = <<>>

\* asyncio.Semaphore: acquire() returns at once when a slot is free and no one waits
MayEnter(a) == rate_limit[a] > 0 /\ waiters[a] = <<>>

\* search_and_analyze(query, search_depth) on agent a, up to its return or
\* its first suspension
SearchAndAnalyze(c, a, q, d) ==
    LET invalid == InvalidFields(q, d)
        key == CacheKey(q, d)
        request == [query |-> q, depth |-> d, agent |-> a, waited |-> FALSE]
    IN
    /\ invalid # <<>> => faults + abandons < MaxDisruptions
    /\ faults' = IF invalid # <<>> THEN faults + 1 ELSE faults
    /\ UNCHANGED <<produced, abandons>>
    /\ IF invalid # <<>>
       THEN LET e == ValidationError(invalid, now) IN
            /\ args' = args
            /\ prior' = prior
            /\ Tracks(e, <<OuterContext(q, d)>>)
            /\ Completes(c, a, [ErrorHandlerOnError(c, e, now, 0) EXCEPT
                                  !.query = q, !.depth = d, !.agent = a], cache[a])
            /\ UNCHANGED <<worker, rate_limit, waiters>>
       ELSE IF key \in DOMAIN cache[a]
       THEN /\ args' = args
            /\ prior' = prior
            /\ Tracks(ValidationError(invalid, now), <<>>)
            /\ Completes(c, a, [ErrorHandlerOnResult(c, CacheHit(cache[a][key], now), 0) EXCEPT
                                  !.query = q, !.depth = d, !.agent = a,
                                  !.prior = PriorOf(a, q, d)], cache[a])
            /\ UNCHANGED <<worker, rate_limit, waiters>>
       ELSE IF MayEnter(a)
       THEN /\ args' = [args EXCEPT ![c] = request]
            /\ prior' = [prior EXCEPT ![c] = PriorOf(a, q, d)]
            /\ rate_limit' = [rate_limit EXCEPT ![a] = @ - 1]
            /\ worker' = [worker EXCEPT ![c] = "running"]
            /\ pc' = [pc EXCEPT ![c] = "inflight"]
            /\ UNCHANGED <<waiters, cache, ret, http, ledgerVars>>
       ELSE /\ args' = [args EXCEPT ![c] = [request EXCEPT !.waited = TRUE]]
            /\ prior' = [prior EXCEPT ![c] = PriorOf(a, q, d)]
            /\ waiters' = [waiters EXCEPT ![a] = Append(@, c)]
            /\ pc' = [pc EXCEPT ![c] = "waiting"]
            /\ UNCHANGED <<worker, rate_limit, cache, ret, http, ledgerVars>>

\* a direct caller calls search_and_analyze on the shared agent
Search(c, q, d) ==
    /\ CanIssue(c)
    /\ SearchAndAnalyze(c, SharedAgent, q, d)

\* the first waiter of agent a is woken with a free slot and starts its provider call
Wake(c) ==
    LET a == AgentOf(c) IN
    /\ pc[c] = "waiting"
    /\ waiters[a] # <<>> /\ Head(waiters[a]) = c
    /\ rate_limit[a] > 0
    /\ rate_limit' = [rate_limit EXCEPT ![a] = @ - 1]
    /\ waiters' = [waiters EXCEPT ![a] = Tail(@)]
    /\ worker' = [worker EXCEPT ![c] = "running"]
    /\ pc' = [pc EXCEPT ![c] = "inflight"]
    /\ UNCHANGED <<args, cache, ret, http, prior, produced, faults, abandons, ledgerVars>>

\* faulty variant: the slot is never given back
ReleasedNever(a, ok) == rate_limit

\* faulty variant: the slot is given back only when a response was built
ReleasedOnSuccessOnly(a, ok) == IF ok THEN [rate_limit EXCEPT ![a] = @ + 1] ELSE rate_limit

\* leaving "async with self.rate_limit" (ok: with a response built)
Released(a, ok) == [rate_limit EXCEPT ![a] = @ + 1]

\* faulty variant: the entry is stored under the query alone
StoredUnderQuery(entries, key, response) ==
    [k \in (DOMAIN entries) \cup {response.query.s} |->
        IF k = response.query.s THEN response ELSE entries[k]]

\* faulty variant: an entry already stored is kept
StoredIfAbsent(entries, key, response) ==
    IF key \in DOMAIN entries THEN entries
    ELSE [k \in (DOMAIN entries) \cup {key} |-> IF k = key THEN response ELSE entries[k]]

\* self.cache[cache_key] = response
Stored(entries, key, response) ==
    [k \in (DOMAIN entries) \cup {key} |-> IF k = key THEN response ELSE entries[k]]

\* the provider call of c returns payload p (or raises) and the call runs to its end
ProviderReturns(c, p) ==
    LET a == AgentOf(c)
        q == args[c].query
        d == args[c].depth
        h == Handled(p, q, d, now)
        response == Response(q, d, h.results, now)
        key == CacheKey(q, d)
    IN
    /\ pc[c] = "inflight" /\ worker[c] = "running"
    /\ ~h.ok => faults + abandons < MaxDisruptions
    /\ worker' = [worker EXCEPT ![c] = "none"]
    /\ rate_limit' = Released(a, h.ok)
    /\ faults' = IF h.ok THEN faults ELSE faults + 1
    /\ args' = [args EXCEPT ![c] = NoArgs]
    /\ prior' = [prior EXCEPT ![c] = "none"]
    /\ UNCHANGED <<waiters, abandons>>
    /\ IF h.ok
       THEN /\ Tracks(h.exc, <<>>)
            /\ Completes(c, a, [ErrorHandlerOnResult(c, response, 1) EXCEPT
                                  !.query = q, !.depth = d, !.agent = a, !.payload = p],
                         Stored(cache[a], key, response))
            /\ produced' = [k \in (DOMAIN produced) \cup {<<a, q, d>>} |->
                              IF k = <<a, q, d>>
                              THEN [first |-> IF k \in DOMAIN produced THEN produced[k].first
                                              ELSE response,
                                    last |-> response]
                              ELSE produced[k]]
       ELSE /\ Tracks(h.exc, IF h.inner THEN <<InnerContext(q, d, p), OuterContext(q, d)>>
                             ELSE <<OuterContext(q, d)>>)
            /\ Completes(c, a, [ErrorHandlerOnError(c, h.exc, now, 1) EXCEPT
                                  !.query = q, !.depth = d, !.agent = a, !.payload = p],
                         cache[a])
            /\ UNCHANGED produced

\* the caller of c cancels it: CancelledError is raised where c is suspended,
\* passes the handlers (it is no Exception) and leaves the "async with"; the
\* provider call in its thread is not interrupted
Abandon(c) ==
    LET a == AgentOf(c) IN
    /\ pc[c] \in {"waiting", "inflight"}
    /\ faults + abandons < MaxDisruptions
    /\ abandons' = abandons + 1
    /\ pc' = [pc EXCEPT ![c] = "abandoned"]
    /\ prior' = [prior EXCEPT ![c] = "none"]
    /\ IF pc[c] = "waiting"
       THEN /\ waiters' = [waiters EXCEPT ![a] = SelectSeq(@, LAMBDA x : x # c)]
            /\ args' = [args EXCEPT ![c] = NoArgs]
            /\ UNCHANGED rate_limit
       ELSE /\ rate_limit' = Released(a, FALSE)
            /\ args' = [args EXCEPT ![c] = [NoArgs EXCEPT !.agent = a]]
            /\ UNCHANGED waiters
    /\ UNCHANGED <<worker, cache, ret, http, produced, faults, ledgerVars>>

\* the provider call of an abandoned call ends in its thread; its result is dropped
WorkerEnds(c) ==
    /\ pc[c] = "abandoned" /\ worker[c] = "running"
    /\ worker' = [worker EXCEPT ![c] = "none"]
    /\ args' = [args EXCEPT ![c] = NoArgs]
    /\ UNCHANGED <<pc, rate_limit, waiters, cache, ret, http, prior, produced,
                   faults, abandons, ledgerVars>>

\* the clock moves on
Tick ==
    /\ now < MaxClock
    /\ now' = now + 1
    /\ UNCHANGED <<error_stats, stats_file, script, tracked, loaded, writeFailures,
                   createdEmpty, restarted, track_result, tracking, hash_seed, probe,
                   agentVars>>

AgentInit(n) ==
    /\ pc = [c \in 1..n |-> "idle"]
    /\ args = [c \in 1..n |-> NoArgs]
    /\ worker = [c \in 1..n |-> "none"]
    /\ rate_limit = [a \in 0..n |-> RateLimitSlots]
    /\ waiters = [a \in 0..n |-> <<>>]
    /\ cache = [a \in 0..n |-> <<>>]
    /\ ret = NoOutcome
    /\ http = [code |-> 0, body |-> <<>>]
    /\ prior = [c \in 1..n |-> "none"]
    /\ produced = <<>>
    /\ faults = 0
    /\ abandons = 0

\* no helper under study
\* runs of a helper on one input
MaxRuns == 2

NoProbe == [fn |-> "none", input |-> <<>>, runs |-> <<>>]

\* the process starts with this statistics file: error_tracker = ErrorTracker()
LedgerStartFrom(file) ==
    /\ now = 1
    /\ stats_file = file
    /\ error_stats = LoadErrorStats(file, 0)
    /\ tracked = <<>>
    /\ loaded = error_stats
    /\ writeFailures = 0
    /\ createdEmpty = (file.state # "json")
    /\ restarted = FALSE
    /\ track_result = "none"
    /\ tracking = <<>>
    /\ probe = NoProbe

\* the process starts with no statistics file
LedgerStart == LedgerStartFrom(FileAbsent)

----------------------------------------------------------------------------
(* Spec: direct callers of one ResearchAgent on one event loop, within one
   reading of the clock *)

Request(q, d) == [query |-> q, depth |-> d]

ValidRequests == {Request(Str(<<"a", "b", "c">>), IntVal(2))}

ProviderPayloads == {PayloadOk, PayloadError, PayloadEmpty, PayloadBadText, PayloadRaises}

Init ==
    /\ LedgerStart
    /\ hash_seed = 0   \* no content of this specification's payloads holds a keyword
    /\ script = <<"ValidationError">>
    /\ AgentInit(NumCalls)

Next ==
    \E c \in Calls :
        \/ \E r \in ValidRequests : Search(c, r.query, r.depth)
        \/ Wake(c)
        \/ \E p \in ProviderPayloads : ProviderReturns(c, p)
        \/ Abandon(c)
        \/ WorkerEnds(c)

Spec == Init /\ [][Next]_vars

\* FairSpec: callers that abandon no call, with a provider that answers with
\* results or with none; the event loop resumes a call that is ready, and a
\* running provider call ends
FairPayloads == {PayloadOk, PayloadEmpty}

FairNext ==
    \E c \in Calls :
        \/ \E r \in ValidRequests : Search(c, r.query, r.depth)
        \/ Wake(c)
        \/ \E p \in FairPayloads : ProviderReturns(c, p)

FairSpec ==
    /\ Init
    /\ [][FairNext]_vars
    /\ WF_vars(\E c \in 1..NumCalls : Wake(c))
    /\ WF_vars(\E c \in 1..NumCalls : \E p \in FairPayloads : ProviderReturns(c, p))

----------------------------------------------------------------------------
(* Claims about the rate limiter (Spec, FairSpec) *)

\* C1: with more than 5 calls running concurrently on one agent and none of
\* them abandoned, at most 5 provider calls are in flight.
C1_AtMostFiveInFlight ==
    abandons = 0 => Cardinality(InFlightOn(SharedAgent)) <= RateLimitSlots

\* C27: also in runs where callers abandon calls whose provider call is
\* running in its thread, at most 5 provider calls execute at a time: the
\* slot of an abandoned call is not handed on before its provider call ended.
C27_BoundSurvivesAbandonment ==
    Cardinality(InFlightOn(SharedAgent)) <= RateLimitSlots

\* five provider calls in flight and a sixth call held back
C1_Witness ==
    /\ abandons = 0
    /\ Cardinality(InFlightOn(SharedAgent)) = RateLimitSlots
    /\ \E c \in Calls : pc[c] = "waiting"

\* C3: every slot a call acquired is free again when the call has ended,
\* however it ended: the free slots of an agent are the 5 minus the calls
\* of it that hold one, so with no call in progress all 5 are free.
C3_SlotsReleased ==
    \A a \in DOMAIN rate_limit :
        /\ rate_limit[a] = RateLimitSlots
              - Cardinality({c \in Calls : pc[c] = "inflight" /\ AgentOf(c) = a})
        /\ InProgressOn(a) = {} => rate_limit[a] = RateLimitSlots

\* all calls have ended, one of them in a provider error or abandoned
C3_Witness ==
    /\ \A c \in Calls : pc[c] \in {"done", "abandoned"}
    /\ faults + abandons > 0
    /\ rate_limit[SharedAgent] = RateLimitSlots

\* C4: with finitely many calls and provider calls that end, no call stays
\* waiting for a slot or in its provider call: from some point on every call
\* issued has got its slot and has returned.
C4_NoStarvation ==
    <>[](\A c \in 1..NumCalls : pc[c] \in {"idle", "done"})

\* a call that had to wait has returned a success response
C4_Witness ==
    /\ ret.how = "returned"
    /\ ret.waited
    /\ ret.provider_calls = 1
    /\ ret.value.status = "success"

----------------------------------------------------------------------------
(* FunSpec: a few calls of one ResearchAgent with arguments and provider
   payloads of every shape, across readings of the clock *)

\* calls issued in FunSpec
NumFunCalls == 3

\* two valid requests with the same query, and requests with a bad query, a
\* bad depth, or both
FunRequests ==
    {Request(Str(<<"a", "b", "c">>), IntVal(1)),
     Request(Str(<<"a", "b", "c">>), NonInt("bool", 1)),
     Request(Str(<<" ", "a", "b", " ">>), IntVal(1)),
     Request(NonStr("none"), IntVal(1)),
     Request(Str(<<"a", "b", "c">>), IntVal(6)),
     Request(Str(<<"a", "b", "c">>), NonInt("float", 2)),
     Request(Str(<<" ", "a", "b", " ">>), IntVal(6)),
     Request(NonStr("none"), NonInt("float", 2))}

FunPayloads ==
    {PayloadOk, PayloadError, PayloadEmpty, PayloadBadText, PayloadRaises}

FunInit ==
    /\ LedgerStart
    /\ hash_seed = 0   \* no content of this specification's payloads holds a keyword
    /\ script = <<"ValidationError">>
    /\ AgentInit(NumFunCalls)

FunNext ==
    \/ \E c \in Calls : \E r \in FunRequests : Search(c, r.query, r.depth)
    \/ \E c \in Calls : \E p \in FunPayloads : ProviderReturns(c, p)
    \/ Tick

FunSpec == FunInit /\ [][FunNext]_vars

----------------------------------------------------------------------------
(* Claims about validation and the cache of one agent (FunSpec) *)

\* the fields of (q, d) that are not a string of trimmed length >= 3,
\* respectively not an integer in 1..5
OffendingFields(q, d) ==
    (IF q.t = "str" /\ Len(Strip(q.s)) >= 3 THEN {} ELSE {"query"})
    \cup (IF d.t \in {"int", "bool"} /\ d.v \in 1..5 THEN {} ELSE {"depth"})

\* a call has completed, and it was one with arguments that are not valid
InvalidCallCompleted ==
    ret.how # "none" /\ OffendingFields(ret.query, ret.depth) # {}

\* C8 as stated: a call with a bad query or depth raises ValidationError
\* whose mapping names exactly the offending fields.
C8_RaisesValidationError ==
    InvalidCallCompleted =>
        /\ ret.how = "raised"
        /\ ret.value.class = "ValidationError"
        /\ DOMAIN ret.value.details.invalid_fields = OffendingFields(ret.query, ret.depth)

\* C8 amended: a call with a bad query or depth makes no provider call and
\* returns (does not raise) the error envelope of a ValidationError: status
\* "error", error_code VALIDATION_ERROR, and details.invalid_fields a
\* field -> reason mapping naming exactly the offending fields.
C8_ReturnsValidationEnvelope ==
    InvalidCallCompleted =>
        /\ ret.how = "returned"
        /\ ret.provider_calls = 0
        /\ ret.value.status = "error"
        /\ ret.value.error_code = "VALIDATION_ERROR"
        /\ DOMAIN ret.value.details.invalid_fields = OffendingFields(ret.query, ret.depth)
        /\ \A f \in DOMAIN ret.value.details.invalid_fields :
               ret.value.details.invalid_fields[f] # ""

\* a call with both fields bad has returned an envelope naming both
C8_Witness ==
    /\ InvalidCallCompleted
    /\ OffendingFields(ret.query, ret.depth) = {"query", "depth"}
    /\ ret.how = "returned"
    /\ DOMAIN ret.value.details.invalid_fields = {"query", "depth"}

\* a call has returned that was issued after its agent had stored a success
\* envelope for the same (q, d)
LaterCallReturned == ret.how = "returned" /\ ret.prior = "agent"

\* C9 as stated: a later call for (q, d) makes no provider call and returns
\* the first result for (q, d) unchanged.
C9_ReturnsFirstResult ==
    LaterCallReturned =>
        /\ ret.provider_calls = 0
        /\ ret.value = produced[<<ret.agent, ret.query, ret.depth>>].first

\* C9 amended: a later call for (q, d) makes no provider call and returns,
\* unchanged, the envelope the agent has stored for (q, d): that of the call
\* for (q, d) that last completed its provider call with success.
C9_ReturnsStoredEnvelope ==
    LaterCallReturned =>
        /\ ret.provider_calls = 0
        /\ ret.value = produced[<<ret.agent, ret.query, ret.depth>>].last

\* a later call has returned, at a later reading of the clock, the envelope
\* with the timestamp it was stored with
C9_Witness ==
    /\ LaterCallReturned
    /\ ret.provider_calls = 0
    /\ ret.value.status = "success"
    /\ ret.value.timestamp < now

\* C17: the cache does not de-duplicate calls in flight: calls for one
\* (q, d) that overlap each make their provider call and each store, and the
\* cache holds for (q, d) the envelope of the call that stored last.
C17_LastWriteWins ==
    \A k \in DOMAIN produced :
        k[1] = SharedAgent =>
            /\ CacheKey(k[2], k[3]) \in DOMAIN cache[SharedAgent]
            /\ cache[SharedAgent][CacheKey(k[2], k[3])] = produced[k].last

\* two calls for one (q, d) have both made their provider call and stored
\* different envelopes, and the cache holds the second
C17_Witness ==
    \E k \in DOMAIN produced :
        /\ k[1] = SharedAgent
        /\ produced[k].first # produced[k].last
        /\ cache[SharedAgent][CacheKey(k[2], k[3])] = produced[k].last
        /\ cache[SharedAgent][CacheKey(k[2], k[3])].timestamp > produced[k].first.timestamp

----------------------------------------------------------------------------
(* PaySpec: calls of one ResearchAgent whose provider answers with payloads
   of every shape *)

\* calls issued in PaySpec
NumPayCalls == 3

PayRequests == ValidRequests \cup {Request(Str(<<" ", "a", "b", " ">>), IntVal(6))}

PayPayloads ==
    {PayloadOk, PayloadMany, PayloadNoMappings, PayloadOkText, PayloadError, PayloadErrorWithResults,
     PayloadErrorUnserializable, PayloadEmpty, PayloadBadText, PayloadListText,
     PayloadListTextWithError, PayloadNone, PayloadRaises}

PayInit ==
    /\ LedgerStart
    /\ hash_seed \in HashSeeds
    /\ script = <<"ValidationError">>
    /\ AgentInit(NumPayCalls)

PayNext ==
    \E c \in Calls :
        \/ \E r \in PayRequests : Search(c, r.query, r.depth)
        \/ \E p \in PayPayloads : ProviderReturns(c, p)

PaySpec == PayInit /\ [][PayNext]_vars

----------------------------------------------------------------------------
(* KeySpec: valid requests whose keys are close to each other: a query that
   holds the separator, and the depths 1 and True *)

\* calls issued in KeySpec
NumKeyCalls == 3

KeyRequests ==
    {Request(Str(<<"a", "b", "c">>), IntVal(1)),
     Request(Str(<<"a", "b", "c">>), NonInt("bool", 1)),
     Request(Str(<<"a", "b", "c", ":", "1">>), IntVal(1)),
     Request(Str(<<"a", "b", "c", ":", "1">>), IntVal(2))}

KeyInit ==
    /\ LedgerStart
    /\ hash_seed = 0   \* no content of this specification's payloads holds a keyword
    /\ script = <<"ValidationError">>
    /\ AgentInit(NumKeyCalls)

KeyNext ==
    \E c \in Calls :
        \/ \E r \in KeyRequests : Search(c, r.query, r.depth)
        \/ ProviderReturns(c, PayloadOk)

KeySpec == KeyInit /\ [][KeyNext]_vars

\* C22: over valid requests the cache keys are equal exactly when the queries
\* and the depths are, also for queries that hold ':'; every cache entry is
\* stored under the key of its own query and depth, and a call answered from
\* the cache gets an envelope computed for its query and depth.
C22_KeysDoNotCollide ==
    /\ \A r1, r2 \in KeyRequests :
          (InvalidFields(r1.query, r1.depth) = <<>> /\ InvalidFields(r2.query, r2.depth) = <<>>)
          => ((CacheKey(r1.query, r1.depth) = CacheKey(r2.query, r2.depth)) <=> (r1 = r2))
    /\ \A k \in DOMAIN cache[SharedAgent] :
          k = CacheKey(cache[SharedAgent][k].query, cache[SharedAgent][k].depth)
    /\ (ret.how = "returned" /\ ret.value.status = "success") =>
          (ret.value.query = ret.query /\ ret.value.depth = ret.depth)

\* a query that holds ':' was answered from the cache, which also holds the
\* entry of the query before the ':'
C22_Witness ==
    /\ ret.how = "returned" /\ ret.provider_calls = 0
    /\ ret.value.status = "success"
    /\ ret.query = Str(<<"a", "b", "c", ":", "1">>)
    /\ CacheKey(Str(<<"a", "b", "c">>), IntVal(1)) \in DOMAIN cache[SharedAgent]

----------------------------------------------------------------------------
(* CacheSpec: the cache of one agent under requests with keys close to each
   other, a request that fails validation, and provider calls that succeed,
   with sources or with none, or fail *)

\* calls issued in CacheSpec
NumCacheCalls == 3

CacheRequests == KeyRequests \cup {Request(Str(<<"a", "b", "c">>), IntVal(6))}

CachePayloads == {PayloadOk, PayloadNoMappings, PayloadError, PayloadRaises}

CacheInit ==
    /\ LedgerStart
    /\ hash_seed = 0
    /\ script = <<"ValidationError">>
    /\ AgentInit(NumCacheCalls)

CacheNext ==
    \E c \in Calls :
        \/ \E r \in CacheRequests : Search(c, r.query, r.depth)
        \/ \E p \in CachePayloads : ProviderReturns(c, p)

CacheSpec == CacheInit /\ [][CacheNext]_vars

\* the fields of a success envelope
EnvelopeFields ==
    {"status", "query", "depth", "timestamp", "sources", "knowledge_graph", "metadata"}

\* C31: in every state each cache entry is a complete envelope with status
\* "success" that sits under the key of its own query and depth (the entry
\* under the key of (q, d) has query q and depth d), and the step in which
\* a call ends in an error leaves the cache as it was.
C31_CacheHoldsOwnSuccesses ==
    /\ [](\A a \in DOMAIN cache : \A key \in DOMAIN cache[a] :
             LET entry == cache[a][key] IN
             /\ DOMAIN entry = EnvelopeFields
             /\ entry.status = "success"
             /\ DOMAIN entry.metadata = {"total_sources", "processed_sources",
                                         "graph_nodes", "graph_edges"}
             /\ CacheKey(entry.query, entry.depth) = key
             /\ \A r \in CacheRequests :
                   CacheKey(r.query, r.depth) = key =>
                       (entry.query = r.query /\ entry.depth = r.depth))
    /\ [][\A c \in Calls :
             (pc[c] # "done" /\ pc'[c] = "done" /\ ret'.value.status = "error")
                 => cache' = cache]_vars

\* two envelopes are stored, for depth 1 and for depth True, and the last
\* call made its provider call and ended in an error: the entry another call
\* had stored under its key is still there
C31_Witness ==
    /\ Cardinality(DOMAIN cache[SharedAgent]) = 2
    /\ CacheKey(Str(<<"a", "b", "c">>), NonInt("bool", 1)) \in DOMAIN cache[SharedAgent]
    /\ ret.how = "returned" /\ ret.provider_calls = 1
    /\ ret.value.status = "error"
    /\ CacheKey(ret.query, ret.depth) \in DOMAIN cache[SharedAgent]
    /\ cache[SharedAgent][CacheKey(ret.query, ret.depth)].status = "success"

----------------------------------------------------------------------------
(* Claims about the handling of provider payloads (PaySpec) *)

\* the call that completed last made a provider call
ProviderCallCompleted == ret.how # "none" /\ ret.provider_calls = 1

\* the call that completed last failed with a TavilyAPIError of this status
\* and message: the ledger's newest record is that error, and the caller got
\* its envelope (that of a serialization error when the payload attached to
\* it is not serializable)
FailedWithProviderError(status, code, msg) ==
    /\ ret.how = "returned"
    /\ ret.value.status = "error"
    /\ tracked # <<>>
    /\ tracked[Len(tracked)].error_type = "TavilyAPIError"
    /\ tracked[Len(tracked)].message = "Tavily API Error: " \o msg
    /\ IF ret.payload.jsonable
       THEN /\ ret.value.error_code = code
            /\ ret.value.details.status_code = status
       ELSE ret.value.error_code = "SERIALIZATION_ERROR"

\* C11: a mapping payload with an 'error' field fails the call with a
\* provider error of status 422, with or without results; a mapping payload
\* without it and without results fails the call with status 404.
C11_ErrorFieldThenNoResults ==
    (ProviderCallCompleted /\ ret.payload.kind = "dict") =>
        /\ ret.payload.has_error =>
              FailedWithProviderError(422, "API_422",
                                      "Unprocessable Entity - Invalid request format")
        /\ (~ret.payload.has_error /\ ret.payload.results = <<>>) =>
              FailedWithProviderError(404, "API_404", "No results found")

\* a payload with an error field and results has failed the call with 422
C11_Witness ==
    /\ ProviderCallCompleted
    /\ ret.payload = PayloadErrorWithResults
    /\ ret.value.status = "error"
    /\ ret.value.error_code = "API_422"

\* the payload is no mapping and does not parse into one
NotAMapping(p) == p.kind = "other" \/ (p.kind = "text" /\ p.parsed # "dict")

\* C12: a payload that is no mapping and cannot be parsed into one fails the
\* call with a provider error of status 500 that carries the raw payload.
C12_UnparseableIs500 ==
    (ProviderCallCompleted /\ NotAMapping(ret.payload)) =>
        /\ ret.how = "returned"
        /\ ret.value.status = "error"
        /\ ret.value.error_code = "API_500"
        /\ ret.value.details.response_body = [raw_response |-> ret.payload]

C15_FailuresAreRecorded ==
    [][\A c \in Calls :
          (pc[c] # "done" /\ pc'[c] = "done" /\ ret'.value.status = "error") =>
              /\ error_stats'.total_errors > error_stats.total_errors
              /\ error_stats'.error_timeline # <<>>
              /\ LET newest == error_stats'.error_timeline[Len(error_stats'.error_timeline)]
                 IN /\ newest.context.query = ret'.query
                    /\ newest.context.depth = ret'.depth]_vars

\* C29: the step in which a call ends in failure, of whatever kind, grows
\* total_errors by exactly 1 and the timeline by exactly one record.
C29_FailureCountedOnce ==
    [][\A c \in Calls :
          (pc[c] # "done" /\ pc'[c] = "done" /\ ret'.value.status = "error") =>
              /\ error_stats'.total_errors = error_stats.total_errors + 1
              /\ Len(error_stats'.error_timeline) = Len(error_stats.error_timeline) + 1]_vars

\* a call whose provider call raised has ended, recorded by both handlers
C15_Witness ==
    /\ ProviderCallCompleted
    /\ ret.payload = PayloadRaises
    /\ ret.value.status = "error"
    /\ error_stats.total_errors = 2
    /\ error_stats.error_timeline[2].context.query = ret.query
    /\ error_stats.error_timeline[2].error_type = "ConnectionError"

\* C18: in a success envelope, sources holds the first min(n, max_urls)
\* normalized sources in the provider's order, n being the number of
\* normalized sources: at most max_urls of them; metadata.total_sources is n
\* and metadata.processed_sources is the length of sources.
C18_SourcesTruncated ==
    (ret.how = "returned" /\ ret.value.status = "success") =>
        /\ Len(ret.value.sources) <= MaxUrls
        /\ ret.value.metadata.processed_sources = Len(ret.value.sources)
        /\ ProviderCallCompleted =>
              LET normalized == NormalizedSources(ret.payload.results)
                  n == Len(normalized)
              IN /\ Len(ret.value.sources) = (IF n < MaxUrls THEN n ELSE MaxUrls)
                 /\ \A i \in 1..Len(ret.value.sources) :
                        ret.value.sources[i] = normalized[i]
                 /\ ret.value.metadata.total_sources = n

\* seven results, six of them mappings, have been answered with five sources
C18_Witness ==
    /\ ProviderCallCompleted
    /\ ret.payload = PayloadMany
    /\ ret.value.status = "success"
    /\ ret.value.metadata.total_sources = 6
    /\ Len(ret.value.sources) = 5
    /\ ret.value.sources[3].title = "t3"

----------------------------------------------------------------------------
(* WrapSpec: PaySpec, and calls of other coroutines decorated with
   @error_handler *)

\* what a decorated coroutine does: it returns a JSON-serializable result or
\* one that is not, or raises a ResearchError or another exception
WrappedBehaviours == {"result", "unserializable_result", "research_error", "other_error"}

\* what error_handler's wrapper hands to the caller of a coroutine that does f
WrapperOutcome(f, t) ==
    LET formatted(e) == [NoOutcome EXCEPT !.how = "returned",
                                          !.value = FormatErrorResponse(e, t)]
    IN CASE f = "result" ->
              [NoOutcome EXCEPT !.how = "returned", !.value = [status |-> "success"]]
         [] f = "unserializable_result" ->
              formatted(OtherError("ValueError", "Response not JSON serializable", t))
         [] f = "research_error" ->
              formatted(ValidationError([query |-> "Query must be a non-empty string"], t))
         [] OTHER ->
              formatted(OtherError("RuntimeError", "failed", t))

\* a coroutine decorated with @error_handler is called and does f
Wrapped(f) ==
    /\ ret' = WrapperOutcome(f, now)
    /\ UNCHANGED <<pc, args, worker, rate_limit, waiters, cache, http, prior, produced,
                   faults, abandons, ledgerVars>>

WrapNext ==
    \/ PayNext
    \/ \E f \in WrappedBehaviours : Wrapped(f)

WrapSpec == PayInit /\ [][WrapNext]_vars

----------------------------------------------------------------------------
(* Claims about format_error_response and the ledger (WrapSpec) *)

\* str(error) of the error an envelope was formatted from
FormattedMessage(envelope) ==
    IF envelope.error_code = "SERIALIZATION_ERROR" THEN envelope.details.original_error
    ELSE envelope.message

\* C16: the error of every envelope made by format_error_response is in the
\* timeline of the error ledger.
C16_FormattedErrorsInLedger ==
    (ret.how = "returned" /\ ret.value.status = "error") =>
        \E i \in 1..Len(error_stats.error_timeline) :
            error_stats.error_timeline[i].message = FormattedMessage(ret.value)

----------------------------------------------------------------------------
(* AppSpec: concurrent POST /api/research requests in one process; request c
   is served by research(), which constructs agent c *)

\* requests made in AppSpec
NumRequests == 6

\* a request body: whether it is JSON, whether the JSON is an object, and
\* the values under "query" and "depth" (a depth of type "missing": no key;
\* "numstr": a string int() reads as v; "float": a float int() truncates to v)
Body(q, d) == [json |-> TRUE, dict |-> TRUE, query |-> q, depth |-> d]
NotJson == [json |-> FALSE, dict |-> FALSE, query |-> NonStr("none"), depth |-> NonInt("missing", 0)]

\* depth = data.get('depth', 3); depth = int(depth)
IntOf(d) ==
    CASE d.t = "missing" -> [ok |-> TRUE, v |-> 3]
      [] d.t \in {"int", "bool", "float", "numstr"} -> [ok |-> TRUE, v |-> d.v]
      [] OTHER -> [ok |-> FALSE, v |-> 0]

\* the error_code research() rejects the body with ("" when it accepts it)
HttpReject(body) ==
    IF ~body.json THEN "INVALID_CONTENT_TYPE"
    ELSE IF ~body.dict THEN "INVALID_JSON"
    ELSE IF body.query.t # "str" \/ body.query.s = <<>> THEN "INVALID_QUERY"
    ELSE IF ~IntOf(body.depth).ok \/ IntOf(body.depth).v < 1 \/ IntOf(body.depth).v > 5
         THEN "INVALID_DEPTH"
    ELSE ""

\* the message research() rejects a body with
HttpRejectMessage(code) ==
    CASE code = "INVALID_CONTENT_TYPE" -> "Request must be JSON"
      [] code = "INVALID_JSON" -> "Invalid JSON format"
      [] code = "INVALID_QUERY" -> "Query is required and must be a string"
      [] OTHER -> "Depth must be an integer between 1 and 5"

\* research() for request c, up to its answer or its first suspension
Research(c, body) ==
    /\ CanIssue(c)
    /\ IF HttpReject(body) # ""
       THEN /\ http' = [code |-> 400,
                        body |-> [status |-> "error",
                                  message |-> HttpRejectMessage(HttpReject(body)),
                                  error_code |-> HttpReject(body)]]
            /\ pc' = [pc EXCEPT ![c] = "done"]
            /\ UNCHANGED <<args, worker, rate_limit, waiters, cache, ret, prior, produced,
                           faults, abandons, ledgerVars>>
       ELSE SearchAndAnalyze(c, c, body.query, IntVal(IntOf(body.depth).v))

AppBodies ==
    {Body(Str(<<"a", "b", "c">>), NonInt("missing", 0)),
     Body(Str(<<"a", "b", "c">>), NonInt("numstr", 3)),
     Body(Str(<<" ", "a", "b", " ">>), IntVal(1)),
     Body(Str(<<"a", "b", "c">>), IntVal(6)),
     NotJson}

AppPayloads == {PayloadOk, PayloadEmpty}

AppInit ==
    /\ LedgerStart
    /\ hash_seed = 0   \* no content of this specification's payloads holds a keyword
    /\ script = <<"ValidationError">>
    /\ AgentInit(NumRequests)

AppNext ==
    \E c \in Calls :
        \/ \E b \in AppBodies : Research(c, b)
        \/ \E p \in AppPayloads : ProviderReturns(c, p)

AppSpec == AppInit /\ [][AppNext]_vars

----------------------------------------------------------------------------
(* Claims about the process as a whole (AppSpec) *)

\* C2: across all calls of the process, those of concurrent POST
\* /api/research requests included, at most 5 provider calls are in flight.
C2_ProcessWideLimit == Cardinality(InFlight) <= RateLimitSlots

\* C14: POST /api/research answers 200 only with a success envelope, and
\* every failure with 400 or 500 and a body {status: "error", message,
\* error_code}.
C14_Http200OnlyOnSuccess ==
    /\ http.code = 200 => http.body.status = "success"
    /\ http.code \in {400, 500} =>
          /\ {"status", "message", "error_code"} \subseteq DOMAIN http.body
          /\ http.body.status = "error"

\* C10: once a success envelope for (q, d) has been stored in the process, a
\* later valid request for (q, d) is answered without a provider call.
C10_ProcessWideCache ==
    (ret.how = "returned" /\ ret.prior # "none") => ret.provider_calls = 0

----------------------------------------------------------------------------
(* LedgerSpec: the ledger on its own, fed by a workload of track_error calls *)

\* the workloads: the error classes handed to track_error, repeated in this order
Scripts == {<<"ValidationError">>,
            <<"ValidationError", "TavilyAPIError">>,
            <<"TavilyAPIError", "TavilyAPIError", "ValidationError">>}

ScriptKind(n) == script[((n - 1) % Len(script)) + 1]

LedgerInit ==
    /\ LedgerStart
    /\ hash_seed = 0
    /\ script \in Scripts
    /\ AgentInit(0)

\* error_tracker.track_error(error): one call, the save included (a call
\* that raises does not get to the save), while the clock has not passed max
TrackErrorWithin(outcome, max) ==
    LET call == TrackErrorOn(error_stats, ScriptKind(now), "error", NoContext, now) IN
    /\ now <= max
    /\ outcome # "ok" => (call.raised = "" /\ writeFailures < MaxWriteFailures)
    /\ error_stats' = call.stats
    /\ stats_file' = IF call.raised = "" THEN SavedFile(stats_file, call.stats, outcome)
                     ELSE stats_file
    /\ tracked' = Append(tracked, [timestamp |-> now, error_type |-> ScriptKind(now),
                                    message |-> "error", context |-> NoContext])
    /\ writeFailures' = IF outcome = "ok" THEN writeFailures ELSE writeFailures + 1
    /\ now' = now + 1
    /\ track_result' = IF call.raised = "" THEN "returned" ELSE call.raised
    /\ UNCHANGED <<script, loaded, createdEmpty, restarted, tracking, hash_seed, probe,
                   agentVars>>

TrackError(outcome) == TrackErrorWithin(outcome, MaxTracks)

\* the process ends and a new one, with this hash seed, imports error_handler:
\* error_tracker = ErrorTracker()
ProcessStarts(seed) ==
    /\ ~restarted
    /\ restarted' = TRUE
    /\ error_stats' = LoadErrorStats(stats_file, now)
    /\ createdEmpty' = (stats_file.state # "json")
    /\ tracked' = <<>>
    /\ loaded' = error_stats'
    /\ track_result' = "none"
    /\ hash_seed' = seed
    /\ UNCHANGED <<stats_file, now, script, writeFailures, tracking, probe, agentVars>>

\* LedgerSpec: the restart of a process whose hash seed is set in its
\* environment; the ledger holds no set of str
Restart == ProcessStarts(hash_seed)

LedgerNext ==
    \/ \E o \in WriteOutcomes : TrackError(o)
    \/ Restart

LedgerSpec == LedgerInit /\ [][LedgerNext]_vars

----------------------------------------------------------------------------
(* OrderSpec: calls of every kind on the shared agent: invalid ones, ones the
   cache answers, ones that start a provider call and ones that wait for a
   slot *)

\* search_and_analyze calls issued in OrderSpec
NumOrderCalls == 8

OrderRequests ==
    {Request(Str(<<"a", "b", "c">>), IntVal(2)),
     Request(Str(<<"a", "b", "c">>), IntVal(6))}

OrderPayloads == {PayloadOk, PayloadEmpty}

OrderInit ==
    /\ LedgerStart
    /\ hash_seed = 0
    /\ script = <<"ValidationError">>
    /\ AgentInit(NumOrderCalls)

OrderNext ==
    \E c \in Calls :
        \/ \E r \in OrderRequests : Search(c, r.query, r.depth)
        \/ Wake(c)
        \/ \E p \in OrderPayloads : ProviderReturns(c, p)

OrderSpec == OrderInit /\ [][OrderNext]_vars

\* C30: a provider call is started only by a call that passed validation,
\* found no cache entry for its key when it looked, and takes a
\* rate-limiter slot in the step that starts the provider call (at once, or
\* after waiting for one).  A call that fails validation or hits the cache
\* ends at once: it takes no slot, waits for none and starts no provider call.
C30_ValidateCacheSlotProvider ==
    [][\A c \in Calls :
          LET started == worker[c] # "running" /\ worker'[c] = "running"
              issued == pc[c] = "idle" /\ pc'[c] # "idle"
              req == IF pc'[c] = "done" THEN ret' ELSE args'[c]
              valid == OffendingFields(req.query, req.depth) = {}
              miss == CacheKey(req.query, req.depth) \notin DOMAIN cache[req.agent]
          IN /\ issued =>
                   IF valid /\ miss
                   THEN pc'[c] \in {"inflight", "waiting"}
                   ELSE /\ pc'[c] = "done"
                        /\ ret'.provider_calls = 0
                        /\ rate_limit' = rate_limit
                        /\ worker' = worker
                        /\ waiters' = waiters
             /\ started =>
                   /\ issued \/ pc[c] = "waiting"
                   /\ valid
                   /\ rate_limit[req.agent] > 0
                   /\ rate_limit'[req.agent] = rate_limit[req.agent] - 1
             /\ (pc[c] # "waiting" /\ pc'[c] = "waiting") =>
                   issued /\ rate_limit' = rate_limit /\ worker' = worker]_vars

\* a validation failure was recorded, the last call completed was answered
\* by the cache, and a call that had waited for a slot runs its provider call
C30_Witness ==
    /\ tracked # <<>> /\ tracked[1].error_type = "ValidationError"
    /\ ret.how = "returned" /\ ret.provider_calls = 0 /\ ret.value.status # "error"
    /\ \E c \in Calls : worker[c] = "running" /\ args[c].waited
    /\ rate_limit[SharedAgent] = 0

----------------------------------------------------------------------------
(* FormatSpec: format_error_response applied to exceptions of every kind *)

\* creation times of the exceptions
FormatTimes == 0..1

FormatErrors ==
    UNION {
      {ValidationError(InvalidFields(Str(<<"a", "b", "c">>), IntVal(0)), t),
       ValidationError(InvalidFields(NonStr("none"), NonInt("str", 0)), t),
       TavilyAPIError("No results found", 404, PayloadEmpty, TRUE, t),
       HandleTavilyError422(PayloadError, TRUE, t),
       HandleTavilyError422(PayloadErrorUnserializable, FALSE, t),
       WithRaises(HandleTavilyError422(PayloadErrorUnserializable, FALSE, t), "dumps"),
       OtherError("ConnectionError", "unreachable", t),
       WithRaises(OtherError("BrokenError", "", t), "str"),
       WithRaises(HandleTavilyError422(PayloadError, TRUE, t), "str")} : t \in FormatTimes}

FormatInit ==
    /\ LedgerStart
    /\ hash_seed = 0
    /\ script = <<"ValidationError">>
    /\ AgentInit(0)

\* one run of format_error_response(e)
RunFormatErrorResponse(e) ==
    /\ probe.fn = "none" \/ (probe.fn = "format_error_response" /\ probe.input = e)
    /\ Len(probe.runs) < MaxRuns
    /\ probe' = [fn |-> "format_error_response", input |-> e,
                 runs |-> Append(probe.runs, [seed |-> hash_seed, at |-> now,
                                              result |-> FormatErrorResponseCall(e, now)])]
    /\ UNCHANGED <<error_stats, stats_file, now, script, tracked, loaded, writeFailures,
                   createdEmpty, restarted, track_result, tracking, hash_seed, agentVars>>

FormatNext ==
    \/ \E e \in FormatErrors : RunFormatErrorResponse(e)
    \/ Tick

FormatSpec == FormatInit /\ [][FormatNext]_vars

\* the envelopes format_error_response falls back to
FallbackCodes == {"SERIALIZATION_ERROR", "CRITICAL_ERROR"}

\* C25: format_error_response never raises.  For every exception it returns
\* an envelope with status "error", a message, an error_code and a timestamp;
\* when the details are not JSON-serializable or building the response
\* raises, the envelope is the fixed SERIALIZATION_ERROR or CRITICAL_ERROR
\* one, and otherwise it carries the code of the exception.
C25_FormatNeverRaises ==
    probe.fn = "format_error_response" =>
        \A i \in 1..Len(probe.runs) :
            LET run == probe.runs[i]
                e == probe.input
                envelope == run.result.response
            IN /\ run.result.raised = ""
               /\ {"status", "message", "error_code", "timestamp"} \subseteq DOMAIN envelope
               /\ envelope.status = "error"
               /\ envelope.error_code # ""
               /\ envelope.error_code \in FallbackCodes <=>
                     (~e.jsonable \/ RaisesAt(e) # "none")
               /\ envelope.error_code \in FallbackCodes =>
                     /\ envelope.timestamp = run.at
                     /\ envelope.message \in {"Internal server error - Response not serializable",
                                              "Critical error in error handling"}
               /\ envelope.error_code \notin FallbackCodes =>
                     envelope.error_code = (IF e.research THEN e.error_code ELSE "UNKNOWN_ERROR")

\* a provider error whose response body cannot be serialized was formatted
\* twice, at two clock readings
C25_Witness ==
    /\ probe.fn = "format_error_response"
    /\ Len(probe.runs) = MaxRuns
    /\ probe.input.class = "TavilyAPIError"
    /\ ~probe.input.jsonable
    /\ RaisesAt(probe.input) = "none"
    /\ probe.runs[1].result.response.error_code = "SERIALIZATION_ERROR"
    /\ probe.runs[2].result.response.timestamp # probe.runs[1].result.response.timestamp

----------------------------------------------------------------------------
(* StartSpec: the ledger of a process that finds a statistics file of any
   content when it starts *)

\* track_error calls in StartSpec
MaxStartTracks == 3

\* parsable contents that are no statistics: an object with other keys, an
\* object with one of the keys, a list
WrongObject == [version |-> 1]
PartialObject == [total_errors |-> 3]
JsonList == [json_list |-> <<>>]

\* statistics written by an earlier process
EarlierStats ==
    TrackedStats(InitializeErrorStats(0), "TavilyAPIError", "error", NoContext, 0)

StartFiles ==
    {FileAbsent, FileCorrupt, FileOf(EarlierStats), FileOf(WrongObject),
     FileOf(PartialObject), FileOf(JsonList)}

StartInit ==
    /\ \E file \in StartFiles : LedgerStartFrom(file)
    /\ hash_seed = 0
    /\ script = <<"ValidationError">>
    /\ AgentInit(0)

StartNext ==
    \/ \E o \in WriteOutcomes : TrackErrorWithin(o, MaxStartTracks)
    \/ Restart

StartSpec == StartInit /\ [][StartNext]_vars

\* statistics of the ErrorStatistics shape
WellShaped(stats) ==
    DOMAIN stats = {"total_errors", "error_types", "error_timeline", "last_updated"}

\* C24: whatever the statistics file holds at start (nothing, unparsable
\* text, parsable text that is no statistics), no track_error call raises,
\* the ledger has the shape of statistics, and a ledger not taken from the
\* file starts empty.
C24_UsableFromAnyFile ==
    /\ track_result \in {"none", "returned"}
    /\ WellShaped(loaded)
    /\ createdEmpty =>
          (loaded.total_errors = 0 /\ loaded.error_types = <<>> /\ loaded.error_timeline = <<>>)

----------------------------------------------------------------------------
(* Claims about the error ledger (LedgerSpec) *)

\* number of the records in seq s whose error class is k
RECURSIVE CountKind(_, _)
CountKind(s, k) ==
    IF s = <<>> THEN 0
    ELSE (IF s[Len(s)].error_type = k THEN 1 ELSE 0) + CountKind(SubSeq(s, 1, Len(s) - 1), k)

RECURSIVE SumCounts(_, _)
SumCounts(types, ks) ==
    IF ks = {} THEN 0
    ELSE LET k == CHOOSE x \in ks : TRUE IN types[k] + SumCounts(types, ks \ {k})

\* C5: in every state of the ledger, the one just loaded from the statistics
\* file included, the timeline has at most 100 entries, the file never holds
\* more, and a ledger created empty holds exactly the last min(n, 100) of the
\* n errors tracked on it, in tracking order (FIFO eviction).
C5_TimelineCappedFifo ==
    /\ Len(error_stats.error_timeline) <= TimelineCap
    /\ Len(stats_file.data.error_timeline) <= TimelineCap
    /\ createdEmpty => error_stats.error_timeline = LastN(tracked, TimelineCap)

C5_Witness ==
    /\ createdEmpty
    /\ Len(tracked) = TimelineCap + 3
    /\ Len(error_stats.error_timeline) = TimelineCap
    /\ error_stats.error_timeline[1] = tracked[4]

\* C6: total_errors never decreases while the ledger object lives, and on a
\* ledger created empty it equals the number of track_error calls made on
\* it, beyond the 100 entries of the timeline.
C6_TotalIsLifetimeCount ==
    /\ [](createdEmpty => error_stats.total_errors = Len(tracked))
    /\ [][restarted' = restarted => error_stats'.total_errors >= error_stats.total_errors]_vars

C6_Witness ==
    /\ createdEmpty
    /\ error_stats.total_errors > TimelineCap
    /\ Len(error_stats.error_timeline) = TimelineCap

\* C7: on a ledger created empty, error_types has an entry exactly for the
\* kinds tracked, each equal to the number of track_error calls of that kind,
\* and the entries sum to total_errors.
C7_KindCountsAreLifetime ==
    createdEmpty =>
        /\ DOMAIN error_stats.error_types = {tracked[i].error_type : i \in 1..Len(tracked)}
        /\ \A k \in DOMAIN error_stats.error_types :
              error_stats.error_types[k] = CountKind(tracked, k)
        /\ SumCounts(error_stats.error_types, DOMAIN error_stats.error_types)
              = error_stats.total_errors

\* C23: a track_error call whose save fails raises nothing and has updated
\* total_errors, error_types and the timeline in memory; after a call whose
\* save succeeds the file holds the statistics in memory.
C23_BestEffortPersistence ==
    [][(tracked' # tracked /\ restarted' = restarted) =>
          LET record == tracked'[Len(tracked')] IN
          /\ track_result' = "returned"
          /\ error_stats'.total_errors = error_stats.total_errors + 1
          /\ error_stats'.error_types[record.error_type]
                = GetCount(error_stats.error_types, record.error_type) + 1
          /\ error_stats'.error_timeline[Len(error_stats'.error_timeline)] = record
          /\ writeFailures' = writeFailures => stats_file' = FileOf(error_stats')]_vars

\* a save has failed after the file was truncated, and the ledger went on
\* counting in memory
C23_Witness ==
    /\ writeFailures = 1
    /\ track_result = "returned"
    /\ stats_file = FileCorrupt
    /\ error_stats.total_errors = Len(tracked)
    /\ Len(tracked) >= 2

\* two kinds tracked and one of them has entries evicted from the timeline
C7_Witness ==
    /\ createdEmpty
    /\ Cardinality(DOMAIN error_stats.error_types) = 2
    /\ Len(tracked) > TimelineCap
    /\ \E k \in DOMAIN error_stats.error_types :
          error_stats.error_types[k] > CountKind(error_stats.error_timeline, k)

----------------------------------------------------------------------------
(* RaceSpec: requests of one process fail on several threads at once, and
   each thread calls track_error on the shared error_tracker.  track_error
   takes no lock, so a thread can be switched out between any two of its
   reads and writes of error_stats: each action below is one such step. *)

\* threads that call track_error
NumThreads == 2

Threads == 1..NumThreads

RaceKinds == {"ValidationError", "TavilyAPIError"}

\* statistics whose timeline is full
FullStats ==
    [total_errors   |-> TimelineCap,
     error_types    |-> SetCount(<<>>, "ValidationError", TimelineCap),
     error_timeline |-> [i \in 1..TimelineCap |->
                            [timestamp |-> 0, error_type |-> "ValidationError",
                             message |-> "error", context |-> NoContext]],
     last_updated   |-> 0]

RaceInit ==
    /\ \E file \in {FileAbsent, FileOf(FullStats)} : LedgerStartFrom(file)
    /\ hash_seed = 0
    /\ script = <<"ValidationError">>
    /\ AgentInit(0)

\* thread th stands at this step of its track_error call
ThreadAt(th, step) == th \in DOMAIN tracking /\ tracking[th].pc = step

\* thread th moves to this step
Moved(th, step) == [tracking EXCEPT ![th].pc = step]

RaceUnchanged ==
    UNCHANGED <<script, loaded, writeFailures, createdEmpty, restarted, track_result,
                hash_seed, probe, agentVars>>

\* track_error is entered: error_type and timestamp are taken
RaceEnters(th, etype) ==
    /\ th \notin DOMAIN tracking
    /\ tracking' = tracking @@ (th :> [pc |-> "entered", error_type |-> etype,
                                       timestamp |-> now, read |-> 0, slice |-> <<>>])
    /\ tracked' = Append(tracked, [timestamp |-> now, error_type |-> etype,
                                    message |-> "error", context |-> NoContext])
    /\ now' = now + 1
    /\ UNCHANGED <<error_stats, stats_file>>
    /\ RaceUnchanged

\* total_errors += 1, the read
RaceReadsTotal(th) ==
    /\ ThreadAt(th, "entered")
    /\ tracking' = [tracking EXCEPT ![th].pc = "total_read", ![th].read = error_stats.total_errors]
    /\ UNCHANGED <<error_stats, stats_file, tracked, now>>
    /\ RaceUnchanged

\* total_errors += 1, the write
RaceWritesTotal(th) ==
    /\ ThreadAt(th, "total_read")
    /\ error_stats' = [error_stats EXCEPT !.total_errors = tracking[th].read + 1]
    /\ tracking' = Moved(th, "total_written")
    /\ UNCHANGED <<stats_file, tracked, now>>
    /\ RaceUnchanged

\* error_types.get(error_type, 0)
RaceReadsCount(th) ==
    /\ ThreadAt(th, "total_written")
    /\ tracking' = [tracking EXCEPT ![th].pc = "count_read",
                                    ![th].read = GetCount(error_stats.error_types,
                                                          tracking[th].error_type)]
    /\ UNCHANGED <<error_stats, stats_file, tracked, now>>
    /\ RaceUnchanged

\* error_types[error_type] = ... + 1
RaceWritesCount(th) ==
    /\ ThreadAt(th, "count_read")
    /\ error_stats' = [error_stats EXCEPT
                          !.error_types = SetCount(@, tracking[th].error_type,
                                                   tracking[th].read + 1)]
    /\ tracking' = Moved(th, "count_written")
    /\ UNCHANGED <<stats_file, tracked, now>>
    /\ RaceUnchanged

\* error_timeline.append(record)
RaceAppends(th) ==
    /\ ThreadAt(th, "count_written")
    /\ error_stats' = [error_stats EXCEPT
                          !.error_timeline =
                              Append(@, [timestamp |-> tracking[th].timestamp,
                                         error_type |-> tracking[th].error_type,
                                         message |-> "error", context |-> NoContext])]
    /\ tracking' = Moved(th, "appended")
    /\ UNCHANGED <<stats_file, tracked, now>>
    /\ RaceUnchanged

\* len(error_timeline) > 100 is false: nothing to trim
RaceSkipsTrim(th) ==
    /\ ThreadAt(th, "appended")
    /\ Len(error_stats.error_timeline) <= TimelineCap
    /\ tracking' = Moved(th, "trimmed")
    /\ UNCHANGED <<error_stats, stats_file, tracked, now>>
    /\ RaceUnchanged

\* len(error_timeline) > 100: the slice error_timeline[-100:] is taken
RaceSlices(th) ==
    /\ ThreadAt(th, "appended")
    /\ Len(error_stats.error_timeline) > TimelineCap
    /\ tracking' = [tracking EXCEPT ![th].pc = "sliced",
                                    ![th].slice = LastN(error_stats.error_timeline, TimelineCap)]
    /\ UNCHANGED <<error_stats, stats_file, tracked, now>>
    /\ RaceUnchanged

\* error_timeline = the slice
RaceWritesSlice(th) ==
    /\ ThreadAt(th, "sliced")
    /\ error_stats' = [error_stats EXCEPT !.error_timeline = tracking[th].slice]
    /\ tracking' = [tracking EXCEPT ![th].pc = "trimmed", ![th].slice = <<>>]
    /\ UNCHANGED <<stats_file, tracked, now>>
    /\ RaceUnchanged

\* last_updated = timestamp, then the save of the statistics as they are now
RaceSaves(th) ==
    /\ ThreadAt(th, "trimmed")
    /\ error_stats' = [error_stats EXCEPT !.last_updated = tracking[th].timestamp]
    /\ stats_file' = SavedFile(stats_file, error_stats', "ok")
    /\ tracking' = Moved(th, "returned")
    /\ UNCHANGED <<tracked, now>>
    /\ RaceUnchanged

RaceNext ==
    \E th \in Threads :
        \/ \E etype \in RaceKinds : RaceEnters(th, etype)
        \/ RaceReadsTotal(th)
        \/ RaceWritesTotal(th)
        \/ RaceReadsCount(th)
        \/ RaceWritesCount(th)
        \/ RaceAppends(th)
        \/ RaceSkipsTrim(th)
        \/ RaceSlices(th)
        \/ RaceWritesSlice(th)
        \/ RaceSaves(th)

RaceSpec == RaceInit /\ [][RaceNext]_vars

\* the smaller of two numbers
Smaller(a, b) == IF a <= b THEN a ELSE b

\* the records of s, as a set
Records(s) == {s[i] : i \in 1..Len(s)}

----------------------------------------------------------------------------
(* GraphSpec: the helpers _extract_keywords and _create_knowledge_graph run
   on one input, several times, in one process or in two: a new process
   starts with a hash seed of its own *)

\* a source as _create_knowledge_graph reads it
TextSource(title, content) == Source(Result(title, Url("", ""), content))

\* a title of 52 characters
LongTitle == "abcdefghijklmnopqrstuvwxyzabcdefghijklmnopqrstuvwxyz"

\* a content with eleven distinct keywords, a repeated one, a stop word and
\* a short word
ElevenKeywords ==
    "alpha bravo charlie about delta echo foxtrot hotel india alpha juliet november oscar quebec"

GraphContents ==
    {"", "the a of", "which there about", "Delta alpha delta",
     "alpha\tALPHA\n about  bravo ", ElevenKeywords}

GraphSourceLists ==
    {<<>>,
     <<TextSource("t1", "Delta alpha delta")>>,
     <<TextSource("t1", "alpha bravo"), TextSource("t2", "bravo c2")>>,
     <<TextSource("t1", "c1"), TextSource("t1", "charlie")>>,
     <<TextSource("alpha", "alpha bravo")>>,
     <<TextSource(LongTitle, "c1")>>,
     NormalizedSources(ManyResults)}

\* urls: empty, with each extension the code looks for, with an upper-case
\* extension, with "pdf" in the host, with ".doc" in the host, with no
\* extension, with another extension
GraphUrls ==
    {Url("", ""), Url("http://h1/u1", "h1"), Url("http://h2/u2.pdf", "h2"),
     Url("http://h1/A.PDF", "h1"), Url("http://pdfhost/page", "pdfhost"),
     Url("http://h1/a.doc", "h1"), Url("http://h1/a.docx", "h1"),
     Url("http://my.docs/page", "my.docs"), Url("http://h1/a.jpg", "h1"),
     Url("http://h1/a.png", "h1"), Url("http://h1/a.gif", "h1"),
     Url("http://h1/a.txt", "h1")}

GraphInit ==
    /\ LedgerStart
    /\ hash_seed \in HashSeeds
    /\ script = <<"ValidationError">>
    /\ AgentInit(0)

\* one run of _extract_keywords(content)
RunExtractKeywords(content) ==
    /\ probe.fn = "none" \/ (probe.fn = "_extract_keywords" /\ probe.input = content)
    /\ Len(probe.runs) < MaxRuns
    /\ probe' = [fn |-> "_extract_keywords", input |-> content,
                 runs |-> Append(probe.runs, [seed |-> hash_seed,
                                              result |-> ExtractKeywords(content)])]
    /\ UNCHANGED <<error_stats, stats_file, now, script, tracked, loaded, writeFailures,
                   createdEmpty, restarted, track_result, tracking, hash_seed, agentVars>>

\* one run of _create_knowledge_graph(sources)
RunCreateKnowledgeGraph(sources) ==
    /\ probe.fn = "none" \/ (probe.fn = "_create_knowledge_graph" /\ probe.input = sources)
    /\ Len(probe.runs) < MaxRuns
    /\ probe' = [fn |-> "_create_knowledge_graph", input |-> sources,
                 runs |-> Append(probe.runs, [seed |-> hash_seed,
                                              result |-> CreateKnowledgeGraph(sources)])]
    /\ UNCHANGED <<error_stats, stats_file, now, script, tracked, loaded, writeFailures,
                   createdEmpty, restarted, track_result, tracking, hash_seed, agentVars>>

\* one run of _determine_content_type on a result with this url
RunDetermineContentType(url) ==
    /\ probe.fn = "none" \/ (probe.fn = "_determine_content_type" /\ probe.input = url)
    /\ Len(probe.runs) < MaxRuns
    /\ probe' = [fn |-> "_determine_content_type", input |-> url,
                 runs |-> Append(probe.runs,
                                 [seed |-> hash_seed,
                                  result |-> DetermineContentType(Result("t1", url, "c1"))])]
    /\ UNCHANGED <<error_stats, stats_file, now, script, tracked, loaded, writeFailures,
                   createdEmpty, restarted, track_result, tracking, hash_seed, agentVars>>

\* one run of _extract_domain(url)
RunExtractDomain(url) ==
    /\ probe.fn = "none" \/ (probe.fn = "_extract_domain" /\ probe.input = url)
    /\ Len(probe.runs) < MaxRuns
    /\ probe' = [fn |-> "_extract_domain", input |-> url,
                 runs |-> Append(probe.runs, [seed |-> hash_seed,
                                              result |-> ExtractDomain(url)])]
    /\ UNCHANGED <<error_stats, stats_file, now, script, tracked, loaded, writeFailures,
                   createdEmpty, restarted, track_result, tracking, hash_seed, agentVars>>

GraphNext ==
    \/ \E content \in GraphContents : RunExtractKeywords(content)
    \/ \E url \in GraphUrls : RunDetermineContentType(url)
    \/ \E url \in GraphUrls : RunExtractDomain(url)
    \/ \E sources \in GraphSourceLists : RunCreateKnowledgeGraph(sources)
    \/ \E seed \in HashSeeds : ProcessStarts(seed)

GraphSpec == GraphInit /\ [][GraphNext]_vars

----------------------------------------------------------------------------
(* Claims about the graph helpers (GraphSpec) *)

\* C19: any two runs of _create_knowledge_graph on the same ordered source
\* list, in one process or in different processes, return the same nodes and
\* the same links in the same order.
C19_SameGraphEveryRun ==
    probe.fn = "_create_knowledge_graph" =>
        \A i, j \in 1..Len(probe.runs) : probe.runs[i].result = probe.runs[j].result

\* the types of the nodes of graph with this id
TypesOf(graph, id) ==
    {graph.nodes[i].type : i \in {n \in 1..Len(graph.nodes) : graph.nodes[n].id = id}}

\* C28: in every graph _create_knowledge_graph returns, every link joins a
\* node of type source and a node of type keyword, no link is a self-loop,
\* no pair of nodes is linked twice, and every source of the list has a node
\* of type source.
C28_LinksJoinSourceAndKeyword ==
    probe.fn = "_create_knowledge_graph" =>
        \A r \in 1..Len(probe.runs) :
            LET graph == probe.runs[r].result
                links == graph.links
            IN /\ \A i \in 1..Len(links) :
                      /\ links[i].source # links[i].target
                      /\ TypesOf(graph, links[i].source) \cup TypesOf(graph, links[i].target)
                            = {"source", "keyword"}
               /\ \A i, j \in 1..Len(links) :
                      {links[i].source, links[i].target} = {links[j].source, links[j].target}
                          => i = j
               /\ \A k \in 1..Len(probe.input) :
                      TypesOf(graph, FirstN(probe.input[k].title, TitleCap)) = {"source"}

\* the qualifying tokens of a content, in tokenization order: lower-cased,
\* separated by whitespace, longer than 4 characters, no stop words
QualifyingTokens(content) == SelectSeq(Split(Lower(content)), IsKeyword)

\* C20: _extract_keywords returns the first 10 distinct qualifying tokens of
\* the content in the order of their first occurrence, all of them when they
\* are fewer than 10, and no token twice.
C20_FirstTenInTokenOrder ==
    probe.fn = "_extract_keywords" =>
        \A i \in 1..Len(probe.runs) :
            LET result == probe.runs[i].result
                distinct == Distinct(QualifyingTokens(probe.input), {})
            IN /\ Len(result) = (IF Len(distinct) < KeywordCap THEN Len(distinct)
                                 ELSE KeywordCap)
               /\ \A k \in 1..Len(result) : result[k] = distinct[k]
               /\ \A k, l \in 1..Len(result) : result[k] = result[l] => k = l

\* s ends with suf
EndsWith(s, suf) == Len(s) >= Len(suf) /\ SubSeq(s, Len(s) - Len(suf) + 1, Len(s)) = suf

\* the type the extension of a url stands for
TypeOfExtension(url) ==
    IF url = "" THEN "unknown"
    ELSE IF EndsWith(url, ".pdf") THEN "pdf"
    ELSE IF EndsWith(url, ".doc") \/ EndsWith(url, ".docx") THEN "document"
    ELSE IF EndsWith(url, ".jpg") \/ EndsWith(url, ".png") \/ EndsWith(url, ".gif")
         THEN "image"
    ELSE "webpage"

\* C21: _determine_content_type gives unknown for an empty url, pdf for the
\* extension .pdf, document for .doc and .docx, image for .jpg, .png and
\* .gif, and webpage for every other url; _extract_domain gives "" for an
\* empty url.
C21_TypeFollowsExtension ==
    /\ probe.fn = "_determine_content_type" =>
          \A i \in 1..Len(probe.runs) :
              probe.runs[i].result = TypeOfExtension(Lower(probe.input.text))
    /\ (probe.fn = "_extract_domain" /\ probe.input.text = "") =>
          \A i \in 1..Len(probe.runs) : probe.runs[i].result = ""

====
